---------------------------- MODULE Spec2Model ----------------------------
(***************************************************************************)
(* gocache: an in-memory key/value cache with per-item expiration, a       *)
(* sync.RWMutex guarding the map and an optional background goroutine that *)
(* sweeps expired items.  Every goroutine's position inside a method is a  *)
(* pc value; one action is one step between two points at which another    *)
(* goroutine can observe or change shared state (the map, the mutex, the   *)
(* clock, the stop channel).                                               *)
(***************************************************************************)
EXTENDS Integers, FiniteSets, Sequences, TLC

\* ------------------------------------------------------------------ bounds

\* The wall clock runs from 0 to MaxTime.
MaxTime == 2

\* How deep GetOrSet calls nest: a compute function may itself call GetOrSet.
MaxDepth == 2

\* -------------------------------------------------------------- the universe

Callers == {"c1", "c2", "c3"}
Sweeper == "bg"
Procs == Callers \cup {Sweeper}

Keys == {"a", "b"}
Nil == "nil"
Values == {"v1", "v2"}

\* Durations a caller passes, in clock units: 0 is "never expires".
Durations == {0, 1}

\* A duration no run of the clock outlasts (the tests' time.Minute).
LongDuration == MaxTime + 1

ErrNone == "nil"
ErrKeyNotFound == "ErrKeyNotFound"
ErrKeyExpired == "ErrKeyExpired"
ErrNilValue == "ErrNilValue"

\* The error a compute function passed to GetOrSet fails with.
ErrCompute == "ErrCompute"

\* fn was not invoked.
NoFn == "nofn"

NoProc == "none"

\* Item{} : the zero value a map lookup yields for an absent key.
ZeroItem == [Value |-> Nil, Expiration |-> 0]

\* What a method hands back: (value, error), the bool of Delete, the int of
\* ItemCount and the map of Items.
NoResult == [val |-> Nil, err |-> ErrNone, ok |-> FALSE, n |-> 0, m |-> <<>>]

VARIABLES
    items,              \* c.items: map[string]Item
    mu,                 \* c.mu: [w: the goroutine holding Lock, r: those holding RLock]
    defaultExpiration,  \* c.defaultExpiration
    cleanupInterval,    \* c.cleanupInterval
    tickerC,            \* ticker.C holds a tick (the channel's capacity is 1)
    clock,              \* time.Now()
    pc,                 \* where each goroutine stands
    op,                 \* the method the caller called
    key,                \* the key argument of the call in progress
    value,              \* the value argument of the call in progress
    duration,           \* the duration argument SetWithExpiration was given
    expiration,         \* SetWithExpiration's local expiration
    now,                \* DeleteExpired's local now
    item,               \* Get's local item (the first lookup)
    found,              \* Get's local found (the first lookup)
    prior,              \* the entry a write section met at key: Get's second
                        \* lookup, and the entry a Set replaced (ZeroItem: none)
    result,             \* what the call returned (pc = "ret")
    lastSet,            \* per key, the value the latest Set stored under the lock
    stops,              \* how many Stop() calls have returned
    removed,            \* the keys the DeleteExpired or Flush that returned took out
    stack,              \* per goroutine, its GetOrSet calls in progress, innermost first
    computed            \* what fn gave the GetOrSet that returned (NoFn: fn did not run)

config == <<defaultExpiration, cleanupInterval>>
args == <<op, key, value, duration>>
locals == <<expiration, now, item, found, prior>>
history == <<lastSet, stops, removed, computed>>

vars == <<items, mu, config, stack, tickerC, clock, pc, args, locals, result, history>>

\* ------------------------------------------------------------------ item.go

\* Expired without the never-expires sentinel.
ExpiredNoSentinel(it, t) == t > it.Expiration

\* Expired at the very instant of the expiration.
ExpiredInclusive(it, t) == IF it.Expiration = 0 THEN FALSE ELSE t >= it.Expiration

\* Expired with the comparison turned round.
ExpiredFlipped(it, t) == IF it.Expiration = 0 THEN FALSE ELSE t < it.Expiration

\* Item.Expired, with time.Now() passed in as t.
Expired(it, t) == IF it.Expiration = 0 THEN FALSE ELSE t > it.Expiration

\* --------------------------------------------------------------- sync.RWMutex

Unlocked == [w |-> NoProc, r |-> {}]

\* Lock() returns once no goroutine holds the mutex for reading or writing.
CanLock == mu.w = NoProc /\ mu.r = {}

\* RLock() returns once no goroutine holds the mutex for writing.
CanRLock == mu.w = NoProc

\* ------------------------------------------------------------------ helpers

\* A write that keeps the expiration of the entry it replaces.
MapSetKeepExpiration(m, k, it) ==
    [x \in DOMAIN m \cup {k} |->
        IF x = k
        THEN (IF k \in DOMAIN m THEN [it EXCEPT !.Expiration = m[k].Expiration] ELSE it)
        ELSE m[x]]

\* c.items[key] = Item{...}
MapSet(m, k, it) == [x \in DOMAIN m \cup {k} |-> IF x = k THEN it ELSE m[x]]

MapDelete(m, k) == [x \in DOMAIN m \ {k} |-> m[x]]

Lookup(m, k) == IF k \in DOMAIN m THEN m[k] ELSE ZeroItem

\* A call begins: the caller is idle and names the method and its arguments.
Call(p, o, k, v, d) ==
    /\ pc[p] = "idle"
    /\ op' = [op EXCEPT ![p] = o]
    /\ key' = [key EXCEPT ![p] = k]
    /\ value' = [value EXCEPT ![p] = v]
    /\ duration' = [duration EXCEPT ![p] = d]

\* A method returns r to its caller.
Return(p, r) ==
    /\ pc' = [pc EXCEPT ![p] = "ret"]
    /\ result' = [result EXCEPT ![p] = r]

\* ------------------------------------------------------------------ New

\* New(Options{de, ci}): the goroutine is started iff ci > 0.
New(de, ci) ==
    /\ items = <<>>
    /\ mu = Unlocked
    /\ defaultExpiration = de
    /\ cleanupInterval = ci
    /\ tickerC = FALSE
    /\ clock = 0
    /\ pc = [p \in Procs |-> IF p = Sweeper
                             THEN (IF ci > 0 THEN "select" ELSE "absent")
                             ELSE "idle"]
    /\ op = [p \in Procs |-> Nil]
    /\ key = [p \in Procs |-> Nil]
    /\ value = [p \in Procs |-> Nil]
    /\ duration = [p \in Procs |-> 0]
    /\ expiration = [p \in Procs |-> 0]
    /\ now = [p \in Procs |-> 0]
    /\ item = [p \in Procs |-> ZeroItem]
    /\ found = [p \in Procs |-> FALSE]
    /\ prior = [p \in Procs |-> ZeroItem]
    /\ result = [p \in Procs |-> NoResult]
    /\ lastSet = [k \in Keys |-> Nil]
    /\ stops = 0
    /\ removed = [p \in Procs |-> {}]
    /\ stack = [p \in Procs |-> <<>>]
    /\ computed = [p \in Procs |-> NoFn]

Init == \E de \in Durations, ci \in {0, 1} : New(de, ci)

\* ------------------------------------------------------------------ the clock

Tick ==
    /\ clock < MaxTime
    /\ clock' = clock + 1
    /\ UNCHANGED <<items, mu, config, stack, tickerC, pc, args, locals, result, history>>

\* ------------------------------------------------------ Set, SetWithExpiration

\* SetWithExpiration without its nil check.
SetWithExpirationNoNilCheck(p, o, k, v, d) ==
    /\ Call(p, o, k, v, d)
    /\ pc' = [pc EXCEPT ![p] = "swe_lock"]
    /\ expiration' = [expiration EXCEPT ![p] = IF d > 0 THEN clock + d ELSE 0]
    /\ UNCHANGED <<items, mu, config, stack, tickerC, clock, now, item, found, prior, result,
                   history>>

\* A SetWithExpiration that adds any non-zero duration to the time.
SetWithExpirationNegativeExpires(p, o, k, v, d) ==
    /\ Call(p, o, k, v, d)
    /\ IF v = Nil
       THEN /\ Return(p, [NoResult EXCEPT !.err = ErrNilValue])
            /\ UNCHANGED expiration
       ELSE /\ pc' = [pc EXCEPT ![p] = "swe_lock"]
            /\ expiration' = [expiration EXCEPT ![p] = IF d # 0 THEN clock + d ELSE 0]
            /\ UNCHANGED result
    /\ UNCHANGED <<items, mu, config, stack, tickerC, clock, now, item, found, prior, history>>

\* SetWithExpiration up to c.mu.Lock(): the nil check and the expiration.
SetWithExpirationAs(p, o, k, v, d) ==
    /\ Call(p, o, k, v, d)
    /\ IF v = Nil
       THEN /\ Return(p, [NoResult EXCEPT !.err = ErrNilValue])
            /\ UNCHANGED expiration
       ELSE /\ pc' = [pc EXCEPT ![p] = "swe_lock"]
            /\ expiration' = [expiration EXCEPT ![p] = IF d > 0 THEN clock + d ELSE 0]
            /\ UNCHANGED result
    /\ UNCHANGED <<items, mu, config, stack, tickerC, clock, now, item, found, prior, history>>

SetWithExpiration(p, k, v, d) == SetWithExpirationAs(p, "SetWithExpiration", k, v, d)

Set(p, k, v) == SetWithExpirationAs(p, "Set", k, v, defaultExpiration)

\* c.mu.Lock()
SetLock(p) ==
    /\ pc[p] = "swe_lock"
    /\ CanLock
    /\ mu' = [mu EXCEPT !.w = p]
    /\ pc' = [pc EXCEPT ![p] = "swe_write"]
    /\ UNCHANGED <<items, config, stack, tickerC, clock, args, locals, result, history>>

\* c.items[key] = Item{...}; return nil (the deferred Unlock runs).
SetWrite(p) ==
    /\ pc[p] = "swe_write"
    /\ items' = MapSet(items, key[p], [Value |-> value[p], Expiration |-> expiration[p]])
    /\ prior' = [prior EXCEPT ![p] = Lookup(items, key[p])]
    /\ lastSet' = [lastSet EXCEPT ![key[p]] = value[p]]
    /\ mu' = Unlocked
    /\ Return(p, NoResult)
    /\ UNCHANGED <<config, stack, tickerC, clock, args, expiration, now, item, found,
                   stops, removed, computed>>

\* ------------------------------------------------------------------ Get

\* c.mu.RLock()
Get(p, k) ==
    /\ Call(p, "Get", k, Nil, 0)
    /\ CanRLock
    /\ mu' = [mu EXCEPT !.r = @ \cup {p}]
    /\ pc' = [pc EXCEPT ![p] = "get_read"]
    /\ UNCHANGED <<items, config, stack, tickerC, clock, locals, result, history>>

\* item, found := c.items[key]; c.mu.RUnlock()
GetRead(p) ==
    /\ pc[p] = "get_read"
    /\ item' = [item EXCEPT ![p] = Lookup(items, key[p])]
    /\ found' = [found EXCEPT ![p] = key[p] \in DOMAIN items]
    /\ mu' = [mu EXCEPT !.r = @ \ {p}]
    /\ pc' = [pc EXCEPT ![p] = "get_check"]
    /\ UNCHANGED <<items, config, stack, tickerC, clock, args, expiration, now, prior, result,
                   history>>

\* if !found {...}; if item.Expired() {...}; return item.Value, nil
GetCheck(p) ==
    /\ pc[p] = "get_check"
    /\ IF ~found[p]
       THEN Return(p, [NoResult EXCEPT !.err = ErrKeyNotFound])
       ELSE IF Expired(item[p], clock)
            THEN /\ pc' = [pc EXCEPT ![p] = "get_lock"]
                 /\ UNCHANGED result
            ELSE Return(p, [NoResult EXCEPT !.val = item[p].Value])
    /\ UNCHANGED <<items, mu, config, stack, tickerC, clock, args, locals, history>>

\* c.mu.Lock()
GetLock(p) ==
    /\ pc[p] = "get_lock"
    /\ CanLock
    /\ mu' = [mu EXCEPT !.w = p]
    /\ pc' = [pc EXCEPT ![p] = "get_evict"]
    /\ UNCHANGED <<items, config, stack, tickerC, clock, args, locals, result, history>>

\* The delete without the second check.
EvictUnchecked(m, k, t) == MapDelete(m, k)

\* No delete at all.
EvictNothing(m, k, t) == m

\* if item, found := c.items[key]; found && item.Expired() { delete(c.items, key) }
Evict(m, k, t) ==
    IF k \in DOMAIN m /\ Expired(m[k], t) THEN MapDelete(m, k) ELSE m

\* The second check, the delete, c.mu.Unlock(); return nil, ErrKeyExpired
GetEvict(p) ==
    /\ pc[p] = "get_evict"
    /\ prior' = [prior EXCEPT ![p] = Lookup(items, key[p])]
    /\ items' = Evict(items, key[p], clock)
    /\ mu' = Unlocked
    /\ Return(p, [NoResult EXCEPT !.err = ErrKeyExpired])
    /\ UNCHANGED <<config, stack, tickerC, clock, args, expiration, now, item, found, history>>

\* ------------------------------------------------------------------ Delete

\* c.mu.Lock()
Delete(p, k) ==
    /\ Call(p, "Delete", k, Nil, 0)
    /\ CanLock
    /\ mu' = [mu EXCEPT !.w = p]
    /\ pc' = [pc EXCEPT ![p] = "delete"]
    /\ UNCHANGED <<items, config, stack, tickerC, clock, locals, result, history>>

\* A Delete that reports success whether or not the key was there.
DeleteRemoveAlwaysTrue(p) ==
    /\ pc[p] = "delete"
    /\ items' = MapDelete(items, key[p])
    /\ prior' = [prior EXCEPT ![p] = Lookup(items, key[p])]
    /\ mu' = Unlocked
    /\ Return(p, [NoResult EXCEPT !.ok = TRUE])
    /\ UNCHANGED <<config, stack, tickerC, clock, args, expiration, now, item, found, history>>

\* _, found := c.items[key]; if found { delete(c.items, key); return true }; return false
DeleteRemove(p) ==
    /\ pc[p] = "delete"
    /\ items' = MapDelete(items, key[p])
    /\ prior' = [prior EXCEPT ![p] = Lookup(items, key[p])]
    /\ mu' = Unlocked
    /\ Return(p, [NoResult EXCEPT !.ok = key[p] \in DOMAIN items])
    /\ UNCHANGED <<config, stack, tickerC, clock, args, expiration, now, item, found, history>>

\* ------------------------------------------------------------ DeleteExpired

\* A sweep with the comparison turned round: it takes the entries still to expire.
SweepFlipped(m, t) ==
    [k \in {x \in DOMAIN m : ~(m[x].Expiration > 0 /\ t < m[x].Expiration)} |-> m[k]]

\* A sweep that also takes the entries expiring at the very instant it started.
SweepInclusive(m, t) ==
    [k \in {x \in DOMAIN m : ~(m[x].Expiration > 0 /\ t >= m[x].Expiration)} |-> m[k]]

\* for k, v := range c.items { if v.Expiration > 0 && now > v.Expiration { delete } }
Sweep(m, t) ==
    [k \in {x \in DOMAIN m : ~(m[x].Expiration > 0 /\ t > m[x].Expiration)} |-> m[k]]

\* now := time.Now().UnixNano(), read before the lock is asked for.
DeleteExpired(p) ==
    /\ Call(p, "DeleteExpired", Nil, Nil, 0)
    /\ now' = [now EXCEPT ![p] = clock]
    /\ pc' = [pc EXCEPT ![p] = "de_lock"]
    /\ UNCHANGED <<items, mu, config, stack, tickerC, clock, expiration, item, found, prior,
                   result, history>>

\* c.mu.Lock()
DeleteExpiredLock(p) ==
    /\ pc[p] = "de_lock"
    /\ CanLock
    /\ mu' = [mu EXCEPT !.w = p]
    /\ pc' = [pc EXCEPT ![p] = "de_sweep"]
    /\ UNCHANGED <<items, config, stack, tickerC, clock, args, locals, result, history>>

\* The loop and the deferred Unlock; the background goroutine goes back to its select.
DeleteExpiredSweep(p) ==
    /\ pc[p] = "de_sweep"
    /\ items' = Sweep(items, now[p])
    /\ mu' = Unlocked
    /\ IF p = Sweeper
       THEN /\ pc' = [pc EXCEPT ![p] = "select"]
            /\ now' = [now EXCEPT ![p] = 0]
            /\ UNCHANGED result
       ELSE /\ Return(p, NoResult)
            /\ UNCHANGED now
    /\ removed' = [removed EXCEPT ![p] = IF p = Sweeper THEN {}
                                         ELSE DOMAIN items \ DOMAIN Sweep(items, now[p])]
    /\ UNCHANGED <<config, stack, tickerC, clock, args, expiration, item, found, prior,
                   lastSet, stops, computed>>

\* ------------------------------------------------------------------ Items

\* c.mu.RLock()
Items(p) ==
    /\ Call(p, "Items", Nil, Nil, 0)
    /\ CanRLock
    /\ mu' = [mu EXCEPT !.r = @ \cup {p}]
    /\ pc' = [pc EXCEPT ![p] = "items"]
    /\ UNCHANGED <<items, config, stack, tickerC, clock, locals, result, history>>

\* for k, v := range c.items { if v.Expiration == 0 || now < v.Expiration { items[k] = v.Value } }
Unexpired(m, t) ==
    [k \in {x \in DOMAIN m : m[x].Expiration = 0 \/ t < m[x].Expiration} |-> m[k].Value]

\* An Items that deletes the expired entries it leaves out, as Get does.
ItemsCopyEvicts(p) ==
    /\ pc[p] = "items"
    /\ mu' = [mu EXCEPT !.r = @ \ {p}]
    /\ Return(p, [NoResult EXCEPT !.m = Unexpired(items, clock)])
    /\ items' = [k \in DOMAIN Unexpired(items, clock) |-> items[k]]
    /\ UNCHANGED <<config, stack, tickerC, clock, args, locals, history>>

\* now := time.Now().UnixNano(); the loop; the deferred RUnlock
ItemsCopy(p) ==
    /\ pc[p] = "items"
    /\ mu' = [mu EXCEPT !.r = @ \ {p}]
    /\ Return(p, [NoResult EXCEPT !.m = Unexpired(items, clock)])
    /\ UNCHANGED <<items, config, stack, tickerC, clock, args, locals, history>>

\* ------------------------------------------------------------------ ItemCount

\* c.mu.RLock()
ItemCount(p) ==
    /\ Call(p, "ItemCount", Nil, Nil, 0)
    /\ CanRLock
    /\ mu' = [mu EXCEPT !.r = @ \cup {p}]
    /\ pc' = [pc EXCEPT ![p] = "count"]
    /\ UNCHANGED <<items, config, stack, tickerC, clock, locals, result, history>>

\* An ItemCount that leaves out the entries past their expiration.
ItemCountLenUnexpired(p) ==
    /\ pc[p] = "count"
    /\ mu' = [mu EXCEPT !.r = @ \ {p}]
    /\ Return(p, [NoResult EXCEPT !.n =
                      Cardinality({k \in DOMAIN items : ~Expired(items[k], clock)})])
    /\ UNCHANGED <<items, config, stack, tickerC, clock, args, locals, history>>

\* return len(c.items); the deferred RUnlock
ItemCountLen(p) ==
    /\ pc[p] = "count"
    /\ mu' = [mu EXCEPT !.r = @ \ {p}]
    /\ Return(p, [NoResult EXCEPT !.n = Cardinality(DOMAIN items)])
    /\ UNCHANGED <<items, config, stack, tickerC, clock, args, locals, history>>

\* ------------------------------------------------------------------ Flush

\* c.mu.Lock()
Flush(p) ==
    /\ Call(p, "Flush", Nil, Nil, 0)
    /\ CanLock
    /\ mu' = [mu EXCEPT !.w = p]
    /\ pc' = [pc EXCEPT ![p] = "flush"]
    /\ UNCHANGED <<items, config, stack, tickerC, clock, locals, result, history>>

\* A Flush that drops only the entries past their expiration.
FlushReplaceExpiredOnly(p) ==
    /\ pc[p] = "flush"
    /\ items' = Sweep(items, clock)
    /\ mu' = Unlocked
    /\ Return(p, NoResult)
    /\ removed' = [removed EXCEPT ![p] = DOMAIN items]
    /\ UNCHANGED <<config, stack, tickerC, clock, args, locals, lastSet, stops, computed>>

\* c.items = make(map[string]Item); the deferred Unlock
FlushReplace(p) ==
    /\ pc[p] = "flush"
    /\ items' = <<>>
    /\ mu' = Unlocked
    /\ Return(p, NoResult)
    /\ removed' = [removed EXCEPT ![p] = DOMAIN items]
    /\ UNCHANGED <<config, stack, tickerC, clock, args, locals, lastSet, stops, computed>>

\* -------------------------------------------------- startCleanupRoutine, Stop

\* The ticker fires; a tick that finds ticker.C full is dropped.
TickerFire ==
    /\ pc[Sweeper] \notin {"absent", "exited"}
    /\ ~tickerC
    /\ tickerC' = TRUE
    /\ UNCHANGED <<items, mu, config, stack, clock, pc, args, locals, result, history>>

\* case <-ticker.C: c.DeleteExpired(), up to its c.mu.Lock()
SweeperTick ==
    /\ pc[Sweeper] = "select"
    /\ tickerC
    /\ tickerC' = FALSE
    /\ now' = [now EXCEPT ![Sweeper] = clock]
    /\ pc' = [pc EXCEPT ![Sweeper] = "de_lock"]
    /\ UNCHANGED <<items, mu, config, stack, clock, args, expiration, item, found, prior,
                   result, history>>

\* if c.cleanupInterval > 0 { about to send on c.stopCleanup }
Stop(p) ==
    /\ Call(p, "Stop", Nil, Nil, 0)
    /\ IF cleanupInterval > 0
       THEN /\ pc' = [pc EXCEPT ![p] = "stop_send"]
            /\ UNCHANGED <<result, stops>>
       ELSE /\ Return(p, NoResult)
            /\ stops' = stops
    /\ UNCHANGED <<items, mu, config, stack, tickerC, clock, locals, lastSet, removed, computed>>

\* The goroutine takes the signal and goes on selecting.
StopHandoffGoroutineStays(p) ==
    /\ pc[p] = "stop_send"
    /\ pc[Sweeper] = "select"
    /\ pc' = [pc EXCEPT ![p] = "ret"]
    /\ result' = [result EXCEPT ![p] = NoResult]
    /\ stops' = 1
    /\ UNCHANGED <<items, mu, config, stack, tickerC, clock, args, locals,
                   lastSet, removed, computed>>

\* c.stopCleanup <- true meets case <-c.stopCleanup: the channel is unbuffered, so
\* the send completes only with the goroutine in its select; the goroutine returns
\* (its deferred ticker.Stop() ends the ticks).
StopHandoff(p) ==
    /\ pc[p] = "stop_send"
    /\ pc[Sweeper] = "select"
    /\ pc' = [pc EXCEPT ![p] = "ret", ![Sweeper] = "exited"]
    /\ result' = [result EXCEPT ![p] = NoResult]
    /\ stops' = 1
    /\ UNCHANGED <<items, mu, config, stack, tickerC, clock, args, locals,
                   lastSet, removed, computed>>

\* ------------------------------------------------------------------ callers

\* The caller takes the result and is free to call again.
Done(p) ==
    /\ pc[p] = "ret"
    /\ stack[p] = <<>>
    /\ pc' = [pc EXCEPT ![p] = "idle"]
    /\ op' = [op EXCEPT ![p] = Nil]
    /\ key' = [key EXCEPT ![p] = Nil]
    /\ value' = [value EXCEPT ![p] = Nil]
    /\ duration' = [duration EXCEPT ![p] = 0]
    /\ expiration' = [expiration EXCEPT ![p] = 0]
    /\ now' = [now EXCEPT ![p] = 0]
    /\ item' = [item EXCEPT ![p] = ZeroItem]
    /\ found' = [found EXCEPT ![p] = FALSE]
    /\ prior' = [prior EXCEPT ![p] = ZeroItem]
    /\ result' = [result EXCEPT ![p] = NoResult]
    /\ removed' = [removed EXCEPT ![p] = {}]
    /\ computed' = [computed EXCEPT ![p] = NoFn]
    /\ UNCHANGED <<items, mu, config, stack, tickerC, clock, lastSet, stops>>

\* ------------------------------------------------------------------ GetOrSet

\* The frame of a GetOrSet call: its key, its locals value and err once fn has
\* returned, where it stands (in c.Get, in fn, at the test of fn's error, in
\* c.Set) and whether fn has made its call on the store.
Frame(k) == [key |-> k, value |-> Nil, err |-> ErrNone, at |-> "get", called |-> FALSE]

Top(p) == Head(stack[p])

\* p is running a compute function that has not yet called the store.
InFn(p) == stack[p] # <<>> /\ Top(p).at = "fn" /\ ~Top(p).called /\ pc[p] = "idle"

\* What fn may return: a value or nil, with or without an error.
FnValues == Values \cup {Nil}
FnErrors == {ErrNone, ErrCompute}

\* The locals of the call that has returned are gone.
BlankLocals(p) ==
    /\ expiration' = [expiration EXCEPT ![p] = 0]
    /\ now' = [now EXCEPT ![p] = 0]
    /\ item' = [item EXCEPT ![p] = ZeroItem]
    /\ found' = [found EXCEPT ![p] = FALSE]
    /\ prior' = [prior EXCEPT ![p] = ZeroItem]
    /\ removed' = [removed EXCEPT ![p] = {}]

\* GetOrSet returns r to its caller; c is what fn gave it.
GetOrSetReturn(p, r, c) ==
    /\ stack' = [stack EXCEPT ![p] = Tail(@)]
    /\ BlankLocals(p)
    /\ op' = [op EXCEPT ![p] = "GetOrSet"]
    /\ key' = [key EXCEPT ![p] = Top(p).key]
    /\ value' = [value EXCEPT ![p] = Nil]
    /\ duration' = [duration EXCEPT ![p] = 0]
    /\ Return(p, r)
    /\ computed' = [computed EXCEPT ![p] = c]
    /\ UNCHANGED <<items, mu, config, tickerC, clock, lastSet, stops>>

\* Back in GetOrSet or in fn after a call on the store: the goroutine has no call
\* of its own in progress.
Resume(p) ==
    /\ pc' = [pc EXCEPT ![p] = "idle"]
    /\ BlankLocals(p)
    /\ op' = [op EXCEPT ![p] = Nil]
    /\ key' = [key EXCEPT ![p] = Nil]
    /\ value' = [value EXCEPT ![p] = Nil]
    /\ duration' = [duration EXCEPT ![p] = 0]
    /\ result' = [result EXCEPT ![p] = NoResult]
    /\ computed' = [computed EXCEPT ![p] = NoFn]
    /\ UNCHANGED <<items, mu, config, tickerC, clock, lastSet, stops>>

\* GetOrSet(key, fn) is called, by a caller or from within a compute function.
GetOrSet(p, k) ==
    /\ pc[p] = "idle"
    /\ stack[p] = <<>> \/ InFn(p)
    /\ Len(stack[p]) < MaxDepth
    /\ stack' = [stack EXCEPT ![p] = <<Frame(k)>> \o @]
    /\ UNCHANGED <<items, mu, config, tickerC, clock, pc, args, locals, result, history>>

\* value, err := c.Get(key): the call, up to Get's RLock.
GetOrSetGet(p) ==
    /\ stack[p] # <<>> /\ Top(p).at = "get"
    /\ Get(p, Top(p).key)

\* A GetOrSet that runs fn whatever c.Get returned.
GetOrSetGotAlwaysComputes(p) ==
    /\ pc[p] = "ret"
    /\ stack[p] # <<>> /\ Top(p).at = "get"
    /\ stack' = [stack EXCEPT ![p][1].at = "fn"]
    /\ Resume(p)

\* A GetOrSet that still holds the read lock while fn runs.
GetOrSetGotHoldsLock(p) ==
    /\ pc[p] = "ret"
    /\ stack[p] # <<>> /\ Top(p).at = "get"
    /\ IF result[p].err = ErrNone
       THEN GetOrSetReturn(p, [NoResult EXCEPT !.val = result[p].val], NoFn)
       ELSE /\ stack' = [stack EXCEPT ![p][1].at = "fn"]
            /\ pc' = [pc EXCEPT ![p] = "idle"]
            /\ BlankLocals(p)
            /\ op' = [op EXCEPT ![p] = Nil]
            /\ key' = [key EXCEPT ![p] = Nil]
            /\ value' = [value EXCEPT ![p] = Nil]
            /\ duration' = [duration EXCEPT ![p] = 0]
            /\ result' = [result EXCEPT ![p] = NoResult]
            /\ computed' = [computed EXCEPT ![p] = NoFn]
            /\ mu' = [mu EXCEPT !.r = @ \cup {p}]
            /\ UNCHANGED <<items, config, tickerC, clock, lastSet, stops>>

\* if err == nil { return value, nil }; otherwise fn is invoked.
GetOrSetGot(p) ==
    /\ pc[p] = "ret"
    /\ stack[p] # <<>> /\ Top(p).at = "get"
    /\ IF result[p].err = ErrNone
       THEN GetOrSetReturn(p, [NoResult EXCEPT !.val = result[p].val], NoFn)
       ELSE /\ stack' = [stack EXCEPT ![p][1].at = "fn"]
            /\ Resume(p)

\* A call that fn made on the store has returned to fn.
FnResume(p) ==
    /\ pc[p] = "ret"
    /\ stack[p] # <<>> /\ Top(p).at = "fn"
    /\ stack' = [stack EXCEPT ![p][1].called = TRUE]
    /\ Resume(p)

\* value, err = fn(): fn returns (v, e).
FnReturn(p, v, e) ==
    /\ pc[p] = "idle"
    /\ stack[p] # <<>> /\ Top(p).at = "fn"
    /\ stack' = [stack EXCEPT ![p][1] = [@ EXCEPT !.value = v, !.err = e, !.at = "fnret"]]
    /\ UNCHANGED <<items, mu, config, tickerC, clock, pc, args, locals, result, history>>

\* A GetOrSet that stores a value fn returned along with an error.
GetOrSetFnErrStoresValue(p) ==
    /\ pc[p] = "idle"
    /\ stack[p] # <<>> /\ Top(p).at = "fnret"
    /\ IF Top(p).err # ErrNone /\ Top(p).value = Nil
       THEN GetOrSetReturn(p, [NoResult EXCEPT !.err = Top(p).err], Top(p).value)
       ELSE /\ stack' = [stack EXCEPT ![p][1].at = "set"]
            /\ UNCHANGED <<items, mu, config, tickerC, clock, pc, args, locals, result,
                           history>>

\* if err != nil { return nil, err }
GetOrSetFnErr(p) ==
    /\ pc[p] = "idle"
    /\ stack[p] # <<>> /\ Top(p).at = "fnret"
    /\ IF Top(p).err # ErrNone
       THEN GetOrSetReturn(p, [NoResult EXCEPT !.err = Top(p).err], Top(p).value)
       ELSE /\ stack' = [stack EXCEPT ![p][1].at = "set"]
            /\ UNCHANGED <<items, mu, config, tickerC, clock, pc, args, locals, result,
                           history>>

\* err = c.Set(key, value): the call, up to Set's nil check.
GetOrSetSet(p) ==
    /\ stack[p] # <<>> /\ Top(p).at = "set"
    /\ Set(p, Top(p).key, Top(p).value)

\* A GetOrSet that does not look at the error of its Set.
GetOrSetSetDoneIgnoresError(p) ==
    /\ pc[p] = "ret"
    /\ stack[p] # <<>> /\ Top(p).at = "set"
    /\ GetOrSetReturn(p, [NoResult EXCEPT !.val = Top(p).value], Top(p).value)

\* A GetOrSet that returns what the map holds at the key after its Set.
GetOrSetSetDoneReturnsCached(p) ==
    /\ pc[p] = "ret"
    /\ stack[p] # <<>> /\ Top(p).at = "set"
    /\ IF result[p].err # ErrNone
       THEN GetOrSetReturn(p, [NoResult EXCEPT !.err = result[p].err], Top(p).value)
       ELSE GetOrSetReturn(p, [NoResult EXCEPT !.val = Lookup(items, Top(p).key).Value],
                           Top(p).value)

\* if err != nil { return nil, err }; return value, nil
GetOrSetSetDone(p) ==
    /\ pc[p] = "ret"
    /\ stack[p] # <<>> /\ Top(p).at = "set"
    /\ IF result[p].err # ErrNone
       THEN GetOrSetReturn(p, [NoResult EXCEPT !.err = result[p].err], Top(p).value)
       ELSE GetOrSetReturn(p, [NoResult EXCEPT !.val = Top(p).value], Top(p).value)

\* ----------------------------------------------------------- specifications

\* One caller using the whole API, the clock, and the background goroutine.
One == {"c1"}

Next ==
    \/ Tick
    \/ TickerFire
    \/ SweeperTick
    \/ \E p \in One, k \in Keys, v \in Values \cup {Nil} : Set(p, k, v)
    \/ \E p \in One, k \in Keys, v \in Values \cup {Nil}, d \in Durations :
          SetWithExpiration(p, k, v, d)
    \/ \E p \in One : SetLock(p)
    \/ \E p \in One : SetWrite(p)
    \/ \E p \in One, k \in Keys : Get(p, k)
    \/ \E p \in One : GetRead(p)
    \/ \E p \in One : GetCheck(p)
    \/ \E p \in One : GetLock(p)
    \/ \E p \in One : GetEvict(p)
    \/ \E p \in One, k \in Keys : Delete(p, k)
    \/ \E p \in One : DeleteRemove(p)
    \/ \E p \in One : DeleteExpired(p)
    \/ \E p \in One \cup {Sweeper} : DeleteExpiredLock(p)
    \/ \E p \in One \cup {Sweeper} : DeleteExpiredSweep(p)
    \/ \E p \in One : Items(p)
    \/ \E p \in One : ItemsCopy(p)
    \/ \E p \in One : ItemCount(p)
    \/ \E p \in One : ItemCountLen(p)
    \/ \E p \in One : Flush(p)
    \/ \E p \in One : FlushReplace(p)
    \/ \E p \in One : Stop(p)
    \/ \E p \in One : StopHandoff(p)
    \/ \E p \in One : Done(p)

Spec == Init /\ [][Next]_vars

\* Two callers racing Set, SetWithExpiration and Get on one key, no sweep.
Two == {"c1", "c2"}

ConcInit == \E de \in Durations : New(de, 0)

ConcNext ==
    \/ Tick
    \/ \E p \in Two, v \in Values : Set(p, "a", v)
    \/ \E p \in Two, v \in Values, d \in Durations : SetWithExpiration(p, "a", v, d)
    \/ \E p \in Two : SetLock(p)
    \/ \E p \in Two : SetWrite(p)
    \/ \E p \in Two : Get(p, "a")
    \/ \E p \in Two : GetRead(p)
    \/ \E p \in Two : GetCheck(p)
    \/ \E p \in Two : GetLock(p)
    \/ \E p \in Two : GetEvict(p)
    \/ \E p \in Two : Done(p)

ConcSpec == ConcInit /\ [][ConcNext]_vars

\* TestCacheConcurrency: several callers Set and Get one key on a store whose
\* default expiration outlasts the run, with no sweep: two callers Set and Get, a
\* third only Gets.  Nothing expires, so the eviction steps of Get are not among
\* the steps taken.
RaceInit == New(LongDuration, 0)

RaceNext ==
    \/ Tick
    \/ \E p \in Two, v \in Values : Set(p, "a", v)
    \/ \E p \in Two : SetLock(p)
    \/ \E p \in Two : SetWrite(p)
    \/ \E p \in Callers : Get(p, "a")
    \/ \E p \in Callers : GetRead(p)
    \/ \E p \in Callers : GetCheck(p)
    \/ \E p \in Callers : Done(p)

RaceSpec == RaceInit /\ [][RaceNext]_vars

\* One Stop() against a running sweep: c1 calls Stop once, c2 keeps the lock busy
\* with Set, Get and DeleteExpired, the ticker keeps firing.
Stopper == "c1"
Worker == "c2"

LiveInit == \E de \in Durations : New(de, 1)

LiveNext ==
    \/ Tick
    \/ TickerFire
    \/ SweeperTick
    \/ stops = 0 /\ Stop(Stopper)
    \/ StopHandoff(Stopper)
    \/ \E v \in Values : Set(Worker, "a", v)
    \/ SetLock(Worker)
    \/ SetWrite(Worker)
    \/ Get(Worker, "a")
    \/ GetRead(Worker)
    \/ GetCheck(Worker)
    \/ GetLock(Worker)
    \/ GetEvict(Worker)
    \/ DeleteExpired(Worker)
    \/ \E p \in {Worker, Sweeper} : DeleteExpiredLock(p)
    \/ \E p \in {Worker, Sweeper} : DeleteExpiredSweep(p)
    \/ \E p \in {Stopper, Worker} : Done(p)

\* Fair scheduling: a goroutine that can take its next step takes it; a Lock()
\* that can be granted again and again is granted (sync.RWMutex does not starve
\* a writer); a select whose stop case is ready again and again takes it (select
\* picks among its ready cases at random).
LiveFairness ==
    /\ \A p \in {Worker, Sweeper} :
          /\ WF_vars(SetWrite(p) \/ GetRead(p) \/ GetCheck(p) \/ GetEvict(p)
                        \/ DeleteExpiredSweep(p))
          /\ SF_vars(SetLock(p) \/ GetLock(p) \/ DeleteExpiredLock(p))
    /\ SF_vars(StopHandoff(Stopper))

LiveSpec == LiveInit /\ [][LiveNext]_vars /\ LiveFairness

\* A store with the background sweep running and never stopped, and one caller
\* that only writes: nothing but the goroutine's DeleteExpired removes an entry.
SweepInit == \E de \in Durations : New(de, 1)

SweepNext ==
    \/ Tick
    \/ TickerFire
    \/ SweeperTick
    \/ DeleteExpiredLock(Sweeper)
    \/ DeleteExpiredSweep(Sweeper)
    \/ \E k \in Keys, v \in Values : Set(Worker, k, v)
    \/ SetLock(Worker)
    \/ SetWrite(Worker)
    \/ Done(Worker)

\* The ticker keeps firing and the goroutine keeps being scheduled: it receives a
\* tick that is waiting, is granted the Lock() it asks for once the mutex is free
\* again and again, and finishes its sweep; a writer that holds the lock releases it.
SweepFairness ==
    /\ WF_vars(TickerFire)
    /\ WF_vars(SweeperTick)
    /\ SF_vars(DeleteExpiredLock(Sweeper))
    /\ WF_vars(DeleteExpiredSweep(Sweeper))
    /\ WF_vars(SetWrite(Worker))

SweepSpec == SweepInit /\ [][SweepNext]_vars /\ SweepFairness

\* One caller of GetOrSet on a store without the background sweep; the compute
\* function returns what it likes and may first call Set, Get, Delete or GetOrSet
\* on the same store.
MemoInit == \E de \in Durations : New(de, 0)

MemoNext ==
    \/ Tick
    \/ \E p \in One, k \in Keys : GetOrSet(p, k)
    \/ \E p \in One : GetOrSetGet(p)
    \/ \E p \in One : GetRead(p)
    \/ \E p \in One : GetCheck(p)
    \/ \E p \in One : GetLock(p)
    \/ \E p \in One : GetEvict(p)
    \/ \E p \in One : GetOrSetGot(p)
    \/ \E p \in One, k \in Keys, v \in Values : InFn(p) /\ Set(p, k, v)
    \/ \E p \in One, k \in Keys : InFn(p) /\ Get(p, k)
    \/ \E p \in One, k \in Keys : InFn(p) /\ Delete(p, k)
    \/ \E p \in One : DeleteRemove(p)
    \/ \E p \in One : FnResume(p)
    \/ \E p \in One, v \in FnValues, e \in FnErrors : FnReturn(p, v, e)
    \/ \E p \in One : GetOrSetFnErr(p)
    \/ \E p \in One : GetOrSetSet(p)
    \/ \E p \in One : SetLock(p)
    \/ \E p \in One : SetWrite(p)
    \/ \E p \in One : GetOrSetSetDone(p)
    \/ \E p \in One : Done(p)

\* The goroutine inside GetOrSet keeps being scheduled, and a compute function
\* returns: every step of the call that can be taken is taken.
MemoFairness ==
    \A p \in One :
        /\ WF_vars(GetOrSetGet(p) \/ GetRead(p) \/ GetCheck(p) \/ GetLock(p) \/ GetEvict(p)
                      \/ GetOrSetGot(p))
        /\ WF_vars(\E v \in FnValues, e \in FnErrors : FnReturn(p, v, e))
        /\ WF_vars(DeleteRemove(p) \/ FnResume(p))
        /\ WF_vars(GetOrSetFnErr(p) \/ GetOrSetSet(p) \/ SetLock(p) \/ SetWrite(p)
                      \/ GetOrSetSetDone(p))

MemoSpec == MemoInit /\ [][MemoNext]_vars /\ MemoFairness

\* Two callers of GetOrSet on one key, each with a compute function that succeeds
\* with a value of its own and does not call the store.
FlightInit == \E de \in Durations : New(de, 0)

FlightNext ==
    \/ Tick
    \/ \E p \in Two : stack[p] = <<>> /\ GetOrSet(p, "a")
    \/ \E p \in Two : GetOrSetGet(p)
    \/ \E p \in Two : GetRead(p)
    \/ \E p \in Two : GetCheck(p)
    \/ \E p \in Two : GetLock(p)
    \/ \E p \in Two : GetEvict(p)
    \/ \E p \in Two : GetOrSetGot(p)
    \/ \E p \in Two, v \in Values : FnReturn(p, v, ErrNone)
    \/ \E p \in Two : GetOrSetFnErr(p)
    \/ \E p \in Two : GetOrSetSet(p)
    \/ \E p \in Two : SetLock(p)
    \/ \E p \in Two : SetWrite(p)
    \/ \E p \in Two : GetOrSetSetDone(p)
    \/ \E p \in Two : Done(p)

FlightSpec == FlightInit /\ [][FlightNext]_vars

\* A reader that calls Items and ItemCount and keeps what Items returned, beside a
\* writer that calls SetWithExpiration, Delete, DeleteExpired and Flush.
Reader == "c1"
Writer == "c2"

SnapshotInit == New(0, 0)

SnapshotNext ==
    \/ Tick
    \/ Items(Reader)
    \/ ItemsCopy(Reader)
    \/ ItemCount(Reader)
    \/ ItemCountLen(Reader)
    \/ Done(Reader)
    \/ \E k \in Keys, v \in Values, d \in Durations : SetWithExpiration(Writer, k, v, d)
    \/ SetLock(Writer)
    \/ SetWrite(Writer)
    \/ \E k \in Keys : Delete(Writer, k)
    \/ DeleteRemove(Writer)
    \/ DeleteExpired(Writer)
    \/ DeleteExpiredLock(Writer)
    \/ DeleteExpiredSweep(Writer)
    \/ Flush(Writer)
    \/ FlushReplace(Writer)
    \/ Done(Writer)

SnapshotSpec == SnapshotInit /\ [][SnapshotNext]_vars

\* A store made with a negative default expiration and the background sweep
\* running; its caller passes negative and positive durations, reads and sweeps.
NegativeDurations == {-1}

NegativeInit == \E de \in NegativeDurations : New(de, 1)

NegativeNext ==
    \/ Tick
    \/ TickerFire
    \/ SweeperTick
    \/ \E p \in One, k \in Keys, v \in Values : Set(p, k, v)
    \/ \E p \in One, k \in Keys, v \in Values, d \in NegativeDurations \cup {1} :
          SetWithExpiration(p, k, v, d)
    \/ \E p \in One : SetLock(p)
    \/ \E p \in One : SetWrite(p)
    \/ \E p \in One, k \in Keys : Get(p, k)
    \/ \E p \in One : GetRead(p)
    \/ \E p \in One : GetCheck(p)
    \/ \E p \in One : GetLock(p)
    \/ \E p \in One : GetEvict(p)
    \/ \E p \in One : DeleteExpired(p)
    \/ \E p \in One \cup {Sweeper} : DeleteExpiredLock(p)
    \/ \E p \in One \cup {Sweeper} : DeleteExpiredSweep(p)
    \/ \E p \in One : Items(p)
    \/ \E p \in One : ItemsCopy(p)
    \/ \E p \in One : Done(p)

NegativeSpec == NegativeInit /\ [][NegativeNext]_vars

\* -------------------------------------------------------------- properties

\* p takes the step that leaves pc value at.
Leaves(p, at) == pc[p] = at /\ pc'[p] # at

\* p holds the write lock and stands at one of the points in at.
Writing(p, at) == mu.w = p /\ pc[p] \in at

Count(m) == Cardinality(DOMAIN m)

\* C1: Get has exactly one of three outcomes, decided by the entry its lookup
\* found and the time of its expiry check: ErrKeyNotFound when the key is not in
\* the map (so for every key never set), ErrKeyExpired when the entry has an
\* expiration and the time is past it, the stored value with no error otherwise.
C1_GetOutcome ==
    [][\A p \in Callers :
        /\ Leaves(p, "get_read") =>
              /\ found'[p] = (key[p] \in DOMAIN items)
              /\ found'[p] => item'[p] = items[key[p]]
              /\ lastSet[key[p]] = Nil => ~found'[p]
        /\ Leaves(p, "get_check") =>
              IF ~found[p]
              THEN /\ pc'[p] = "ret"
                   /\ result'[p] = [NoResult EXCEPT !.err = ErrKeyNotFound]
              ELSE IF item[p].Expiration # 0 /\ clock > item[p].Expiration
                   THEN pc'[p] = "get_lock"
                   ELSE /\ pc'[p] = "ret"
                        /\ result'[p] = [NoResult EXCEPT !.val = item[p].Value]
        /\ Leaves(p, "get_lock") => pc'[p] = "get_evict"
        /\ Leaves(p, "get_evict") =>
              /\ pc'[p] = "ret"
              /\ result'[p] = [NoResult EXCEPT !.err = ErrKeyExpired]
      ]_vars

\* A Get came back with ErrKeyExpired for an entry it had found.
C1_Witness ==
    \E p \in Callers :
        /\ pc[p] = "ret" /\ op[p] = "Get"
        /\ result[p].err = ErrKeyExpired
        /\ found[p] /\ item[p].Expiration # 0 /\ clock > item[p].Expiration

\* C2: with no background sweep and no other writer, a Get of an entry stored with
\* a positive duration returns the value while the time is not past the
\* expiration; past it, the Get returns ErrKeyExpired and deletes that very entry,
\* so the map is one entry shorter (what ItemCount then returns) and the key is
\* absent (what the next Get reports as ErrKeyNotFound).
C2_LazyEviction ==
    [][cleanupInterval = 0 => \A p \in One :
        /\ (Leaves(p, "get_check") /\ found[p] /\ item[p].Expiration > 0) =>
              IF clock <= item[p].Expiration
              THEN pc'[p] = "ret" /\ result'[p] = [NoResult EXCEPT !.val = item[p].Value]
              ELSE pc'[p] = "get_lock"
        /\ Leaves(p, "get_evict") =>
              /\ key[p] \in DOMAIN items /\ items[key[p]] = item[p]
              /\ items' = MapDelete(items, key[p])
              /\ Count(items') = Count(items) - 1
              /\ result'[p].err = ErrKeyExpired
        /\ Leaves(p, "count") => result'[p].n = Count(items)
        /\ (Leaves(p, "get_check") /\ key[p] \notin DOMAIN items) =>
              result'[p].err = ErrKeyNotFound
      ]_vars

\* A Get has just evicted the expired entry it read, on a store with no sweep.
C2_Witness ==
    \E p \in One :
        /\ cleanupInterval = 0
        /\ pc[p] = "ret" /\ op[p] = "Get" /\ result[p].err = ErrKeyExpired
        /\ prior[p] = item[p] /\ item[p].Expiration > 0
        /\ key[p] \notin DOMAIN items

\* C3: when the write section of a Get's lazy eviction finds at the key an entry
\* that is not expired (one a Set stored after the Get read the expired one), it
\* deletes nothing: the map is the same after the Get returns ErrKeyExpired.
C3_EvictionSparesNewer ==
    [][\A p \in Two :
        (/\ Leaves(p, "get_evict")
         /\ key[p] \in DOMAIN items
         /\ ~(items[key[p]].Expiration # 0 /\ clock > items[key[p]].Expiration)) =>
            /\ items' = items
            /\ pc'[p] = "ret" /\ result'[p].err = ErrKeyExpired
      ]_vars

\* A Get that read an expired entry has returned ErrKeyExpired after meeting a
\* different, unexpired entry, which is still in the map.
C3_Witness ==
    \E p \in Two :
        /\ pc[p] = "ret" /\ op[p] = "Get" /\ result[p].err = ErrKeyExpired
        /\ item[p].Expiration # 0
        /\ prior[p] # item[p] /\ prior[p].Value # Nil
        /\ ~Expired(prior[p], clock)
        /\ key[p] \in DOMAIN items /\ items[key[p]] = prior[p]

\* C4: with callers racing Set and Get on one key and nothing expiring, once a Set
\* has written the key it stays in the map holding the value of the latest Set to
\* hold the write lock; no Get enters the eviction path or returns ErrKeyExpired;
\* a Get reads "absent" only if no Set has written yet, and otherwise reads and
\* returns the value of the latest Set.
C4_NoLostEntry ==
    /\ [](/\ \A k \in Keys :
               lastSet[k] # Nil => k \in DOMAIN items /\ items[k].Value = lastSet[k]
          /\ \A p \in Callers :
               /\ pc[p] \notin {"get_lock", "get_evict"}
               /\ result[p].err # ErrKeyExpired
               /\ (pc[p] = "ret" /\ op[p] = "Get") =>
                     \/ ~found[p] /\ result[p] = [NoResult EXCEPT !.err = ErrKeyNotFound]
                     \/ /\ found[p] /\ item[p].Value \in Values
                        /\ result[p] = [NoResult EXCEPT !.val = item[p].Value])
    /\ [][\A p \in Callers :
            Leaves(p, "get_read") =>
                /\ found'[p] = (lastSet[key[p]] # Nil)
                /\ found'[p] => item'[p].Value = lastSet[key[p]]
       ]_vars

\* One caller's Get has returned a value that another caller's Set, now returned,
\* has replaced in the map.
C4_Witness ==
    \E p, q \in Callers :
        /\ p # q
        /\ pc[p] = "ret" /\ op[p] = "Get" /\ result[p].val = "v1"
        /\ pc[q] = "ret" /\ op[q] = "Set" /\ value[q] = "v2"
        /\ lastSet["a"] = "v2" /\ items["a"].Value = "v2"

\* C5: a Stop() called while no sweep task is running (never started, or already
\* stopped) is not left waiting to hand its signal over: nothing would ever
\* receive it.
C5_StopWithoutSweepReturns ==
    pc[Sweeper] \in {"absent", "exited"} => \A p \in Callers : pc[p] # "stop_send"

\* C6: the one Stop() issued while the sweep is running always returns, with the
\* goroutine gone, wherever the goroutine stood when Stop() was called.
C6_StopReturns ==
    (pc[Stopper] = "stop_send") ~> (pc[Stopper] = "ret" /\ pc[Sweeper] = "exited")

\* Stop() is waiting to hand over its signal while the goroutine, in the middle of
\* a tick, waits for the lock the other caller holds.
C6_Witness ==
    /\ pc[Stopper] = "stop_send"
    /\ pc[Sweeper] = "de_lock"
    /\ mu.w = Worker

\* C7: the sweep stops at most once and stays stopped; once a Stop() has returned
\* the goroutine is gone, holds no lock and takes no further tick, and the map
\* changes only in a caller's own write section, every method still being callable.
Usable(p) ==
    /\ ENABLED Set(p, "a", "v1")
    /\ ENABLED SetWithExpiration(p, "a", "v1", 1)
    /\ ENABLED DeleteExpired(p)
    /\ mu = Unlocked =>
          /\ ENABLED Get(p, "a")
          /\ ENABLED Delete(p, "a")
          /\ ENABLED Items(p)
          /\ ENABLED ItemCount(p)
          /\ ENABLED Flush(p)

C7_StoppedIsTerminal ==
    /\ [](/\ stops <= 1
          /\ stops > 0 => pc[Sweeper] = "exited"
          /\ pc[Sweeper] = "exited" =>
                /\ cleanupInterval > 0
                /\ mu.w # Sweeper
                /\ \A p \in One : pc[p] = "idle" => Usable(p))
    /\ [][pc[Sweeper] = "exited" =>
            /\ pc'[Sweeper] = "exited"
            /\ now'[Sweeper] = now[Sweeper]
            /\ tickerC' = tickerC
            /\ items' # items =>
                  \E p \in Callers :
                      Writing(p, {"swe_write", "get_evict", "delete", "de_sweep", "flush"})
       ]_vars

\* After Stop() returned, an entry has expired and is still in the map, and the
\* caller has counted it.
C7_Witness ==
    /\ stops = 1 /\ pc[Sweeper] = "exited"
    /\ \E p \in One :
          /\ pc[p] = "ret" /\ op[p] = "ItemCount" /\ result[p].n > 0
          /\ \E k \in DOMAIN items : Expired(items[k], clock)

\* C8: an entry stored with duration 0 carries the never-expires expiration
\* whatever the default expiration; whatever the time, a Get that reads such an
\* entry returns its value, Items lists it, and it leaves the map or changes only
\* by a Set of its key, a Delete of its key or a Flush.
C8_ZeroNeverExpires ==
    /\ [](\A p \in Callers :
            (pc[p] \in {"swe_lock", "swe_write"} /\ duration[p] = 0) => expiration[p] = 0)
    /\ [][/\ \A p \in Callers :
               /\ (Leaves(p, "swe_write") /\ duration[p] = 0) =>
                     items'[key[p]] = [Value |-> value[p], Expiration |-> 0]
               /\ (Leaves(p, "get_check") /\ found[p] /\ item[p].Expiration = 0) =>
                     /\ pc'[p] = "ret"
                     /\ result'[p] = [NoResult EXCEPT !.val = item[p].Value]
               /\ Leaves(p, "items") =>
                     \A k \in DOMAIN items :
                         items[k].Expiration = 0 =>
                             /\ k \in DOMAIN result'[p].m
                             /\ result'[p].m[k] = items[k].Value
          /\ \A k \in DOMAIN items :
               (items[k].Expiration = 0 /\ (k \notin DOMAIN items' \/ items'[k] # items[k])) =>
                   \E p \in Callers :
                       \/ Writing(p, {"swe_write", "delete"}) /\ key[p] = k
                       \/ Writing(p, {"flush"})
       ]_vars

\* On a store whose default expiration is positive, with the clock at its end, a
\* Get has returned the value of an entry stored with duration 0.
C8_Witness ==
    \E p \in Callers :
        /\ defaultExpiration > 0 /\ clock = MaxTime
        /\ pc[p] = "ret" /\ op[p] = "Get" /\ result[p].err = ErrNone
        /\ found[p] /\ item[p].Expiration = 0
        /\ key[p] \in DOMAIN items /\ items[key[p]] = item[p]

\* C9: a Set or SetWithExpiration that gets past the nil check computes its
\* expiration from its own duration alone (the time of the call plus d if d > 0,
\* the never-expires 0 otherwise), and its write leaves at the key exactly the
\* value and that expiration, whatever entry was there; the other keys keep their
\* entries, and the number of entries is unchanged when the key was present.
C9_SetReplaces ==
    [][\A p \in Callers :
        /\ (Leaves(p, "idle") /\ pc'[p] = "swe_lock") =>
              expiration'[p] = IF duration'[p] > 0 THEN clock + duration'[p] ELSE 0
        /\ Leaves(p, "swe_write") =>
              /\ DOMAIN items' = DOMAIN items \cup {key[p]}
              /\ items'[key[p]] = [Value |-> value[p], Expiration |-> expiration[p]]
              /\ \A k \in DOMAIN items \ {key[p]} : items'[k] = items[k]
              /\ key[p] \in DOMAIN items => Count(items') = Count(items)
              /\ (duration[p] > 0) = (items'[key[p]].Expiration > 0)
              /\ pc'[p] = "ret" /\ result'[p] = NoResult
      ]_vars

\* A Set with a positive duration has replaced a never-expiring entry that held
\* another value.
C9_Witness ==
    \E p \in Callers :
        /\ pc[p] = "ret" /\ op[p] \in {"Set", "SetWithExpiration"}
        /\ result[p].err = ErrNone
        /\ prior[p].Value \notin {Nil, value[p]} /\ prior[p].Expiration = 0
        /\ duration[p] > 0
        /\ items[key[p]] = [Value |-> value[p], Expiration |-> expiration[p]]

\* C10: Set and SetWithExpiration called with a nil value return ErrNilValue at
\* once and change nothing: the map, and so any entry at the key, is as before.
C10_NilRejected ==
    [][\A p \in Callers :
        (Leaves(p, "idle") /\ op'[p] \in {"Set", "SetWithExpiration"} /\ value'[p] = Nil) =>
            /\ pc'[p] = "ret"
            /\ result'[p] = [NoResult EXCEPT !.err = ErrNilValue]
            /\ items' = items
            /\ mu' = mu
      ]_vars

\* A Set of nil has failed on a key that holds an entry.
C10_Witness ==
    \E p \in Callers :
        /\ pc[p] = "ret" /\ op[p] \in {"Set", "SetWithExpiration"}
        /\ value[p] = Nil /\ result[p].err = ErrNilValue
        /\ key[p] \in DOMAIN items

\* C11: Delete returns true exactly when the key is in the map as its write section
\* begins, an expired entry not yet removed included. An absent key leaves the map
\* as it was; a present key loses its entry and no other entry changes, and a Get
\* that then reads the map without the key returns ErrKeyNotFound.
C11_DeleteFrame ==
    [][\A p \in Callers :
        /\ Leaves(p, "delete") =>
              /\ pc'[p] = "ret"
              /\ result'[p] = [NoResult EXCEPT !.ok = key[p] \in DOMAIN items]
              /\ key[p] \notin DOMAIN items => items' = items
              /\ DOMAIN items' = DOMAIN items \ {key[p]}
              /\ \A k \in DOMAIN items' : items'[k] = items[k]
        /\ (Leaves(p, "get_read") /\ key[p] \notin DOMAIN items) => ~found'[p]
        /\ (Leaves(p, "get_check") /\ ~found[p]) =>
              /\ pc'[p] = "ret"
              /\ result'[p] = [NoResult EXCEPT !.err = ErrKeyNotFound]
      ]_vars

\* A Delete has returned true for an entry that was past its expiration, and the
\* entry of the other key is still in the map.
C11_Witness ==
    \E p \in Callers :
        /\ pc[p] = "ret" /\ op[p] = "Delete" /\ result[p].ok
        /\ prior[p].Expiration # 0 /\ clock > prior[p].Expiration
        /\ key[p] \notin DOMAIN items
        /\ items # <<>>

\* C14: DeleteExpired reads the time once, as it starts and before it asks for the
\* lock; its write section removes exactly the entries that have an expiration
\* earlier than that time and leaves every other entry as it was: the
\* never-expiring ones, the ones not yet expired at that time (even if expired by
\* the time the lock is held), and so any entry of a Set that began after it.
C14_SweepExact ==
    [][\A p \in Procs :
        /\ (pc[p] \in {"idle", "select"} /\ pc'[p] = "de_lock") => now'[p] = clock
        /\ (pc[p] = "de_lock" /\ pc'[p] = "de_sweep") => now'[p] = now[p]
        /\ Leaves(p, "de_sweep") =>
              /\ DOMAIN items' \subseteq DOMAIN items
              /\ \A k \in DOMAIN items :
                    IF items[k].Expiration # 0 /\ items[k].Expiration < now[p]
                    THEN k \notin DOMAIN items'
                    ELSE k \in DOMAIN items' /\ items'[k] = items[k]
      ]_vars

\* A DeleteExpired call has removed an expired entry and left in the map an entry
\* whose expiration was still ahead when the call read the time.
C14_Witness ==
    \E p \in Callers :
        /\ pc[p] = "ret" /\ op[p] = "DeleteExpired"
        /\ removed[p] # {}
        /\ \E k \in DOMAIN items : items[k].Expiration >= now[p] /\ items[k].Expiration > 0

\* C15: Items returns exactly the entries that are not expired at the time it
\* reads, expired meaning what it means for Get (an expiration is set and the time
\* is past it): each such entry is in the result with its value, and no other key
\* is in the result.
C15_ItemsMatchesGet ==
    [][\A p \in Callers :
        Leaves(p, "items") =>
            /\ pc'[p] = "ret"
            /\ DOMAIN result'[p].m =
                   {k \in DOMAIN items :
                       ~(items[k].Expiration # 0 /\ clock > items[k].Expiration)}
            /\ \A k \in DOMAIN result'[p].m : result'[p].m[k] = items[k].Value
      ]_vars

\* C16: ItemCount returns the number of keys in the map as it reads it, entries
\* past their expiration and not yet removed included, and changes nothing.
C16_ItemCountRaw ==
    [][\A p \in Callers :
        Leaves(p, "count") =>
            /\ pc'[p] = "ret"
            /\ result'[p] = [NoResult EXCEPT !.n = Cardinality({k \in Keys : k \in DOMAIN items})]
            /\ items' = items
      ]_vars

\* An ItemCount has returned 2 for a map of two entries, one of them past its
\* expiration.
C16_Witness ==
    \E p \in Callers :
        /\ pc[p] = "ret" /\ op[p] = "ItemCount" /\ result[p].n = 2
        /\ DOMAIN items = Keys
        /\ \E k \in Keys : items[k].Expiration # 0 /\ clock > items[k].Expiration

\* C17: Flush leaves the map empty, whatever it held; the map stays empty until the
\* write section of a Set, and on the empty map ItemCount returns 0, Items returns
\* the empty mapping and a Get of any key returns ErrKeyNotFound.
C17_FlushEmpties ==
    [][/\ \A p \in Callers :
            /\ Leaves(p, "flush") =>
                  items' = <<>> /\ pc'[p] = "ret" /\ result'[p] = NoResult
            /\ (items = <<>> /\ Leaves(p, "count")) => result'[p].n = 0
            /\ (items = <<>> /\ Leaves(p, "items")) => result'[p].m = <<>>
            /\ (items = <<>> /\ Leaves(p, "get_read")) =>
                  /\ ~found'[p] /\ pc'[p] = "get_check"
            /\ (Leaves(p, "get_check") /\ ~found[p]) =>
                  /\ pc'[p] = "ret"
                  /\ result'[p] = [NoResult EXCEPT !.err = ErrKeyNotFound]
       /\ (items = <<>> /\ items' # <<>>) => \E p \in Callers : Writing(p, {"swe_write"})
      ]_vars

\* A Flush has returned after emptying a map that held an entry at every key.
C17_Witness ==
    \E p \in Callers :
        /\ pc[p] = "ret" /\ op[p] = "Flush"
        /\ removed[p] = Keys
        /\ items = <<>>

\* C18: with the background sweep running, an entry that is in the map past its
\* expiration does not stay: it is deleted, and by the goroutine's DeleteExpired,
\* no caller reading or sweeping (the one other way it can go is a Set that
\* overwrites it). Ticks keep firing and scheduling is fair.
C18_SweptEventually ==
    /\ \A k \in Keys :
          (k \in DOMAIN items /\ items[k].Expiration # 0 /\ clock > items[k].Expiration)
             ~> ~(k \in DOMAIN items /\ items[k].Expiration # 0
                     /\ clock > items[k].Expiration)
    /\ [][\A k \in DOMAIN items :
            /\ k \notin DOMAIN items' =>
                  /\ Writing(Sweeper, {"de_sweep"})
                  /\ items[k].Expiration # 0 /\ now[Sweeper] > items[k].Expiration
            /\ (k \in DOMAIN items' /\ items'[k] # items[k]) =>
                  Writing(Worker, {"swe_write"}) /\ key[Worker] = k
       ]_vars

\* The goroutine is back at its select and a key that was written is no longer in
\* the map, on a store where only the goroutine deletes.
C18_Witness ==
    /\ pc[Sweeper] = "select" /\ cleanupInterval > 0
    /\ \A p \in Callers : op[p] \in {Nil, "Set", "SetWithExpiration"}
    /\ \E k \in Keys : lastSet[k] # Nil /\ k \notin DOMAIN items

\* p is inside GetOrSet at the point at.
Inside(p, at) == stack[p] # <<>> /\ Head(stack[p]).at = at

\* C12: GetOrSet does not recompute a value the cache holds. When its Get reads an
\* entry that is not expired, GetOrSet returns that entry's value, fn is not run
\* and the map is not changed; fn is run only after a Get that failed. So a
\* GetOrSet that returns without having run fn returns the value the latest Set
\* of the key stored, which is still in the map: the second of two calls in a row
\* returns what the first one computed and stored.
C12_NoRecompute ==
    /\ [][\A p \in One :
            /\ (Inside(p, "get") /\ Leaves(p, "get_check") /\ found[p]
                    /\ ~(item[p].Expiration # 0 /\ clock > item[p].Expiration)) =>
                   /\ pc'[p] = "ret"
                   /\ result'[p] = [NoResult EXCEPT !.val = item[p].Value]
            /\ (Inside(p, "get") /\ pc[p] = "ret" /\ stack'[p] # stack[p]) =>
                   IF result[p].err = ErrNone
                   THEN /\ stack'[p] = Tail(stack[p])
                        /\ pc'[p] = "ret" /\ op'[p] = "GetOrSet"
                        /\ key'[p] = Head(stack[p]).key
                        /\ result'[p] = [NoResult EXCEPT !.val = result[p].val]
                        /\ computed'[p] = NoFn
                   ELSE Inside(p, "fn")'
            /\ (Inside(p, "get") /\ items' # items) => pc[p] = "get_evict"
            /\ (~Inside(p, "fn") /\ Inside(p, "fn")' /\ Len(stack'[p]) = Len(stack[p])) =>
                   Inside(p, "get") /\ pc[p] = "ret" /\ result[p].err # ErrNone
        ]_vars
    /\ [](\A p \in One :
            (pc[p] = "ret" /\ op[p] = "GetOrSet" /\ computed[p] = NoFn) =>
                /\ result[p].err = ErrNone
                /\ result[p].val = lastSet[key[p]]
                /\ key[p] \in DOMAIN items /\ items[key[p]].Value = result[p].val)

\* A GetOrSet has returned the value stored at its key without running fn.
C12_Witness ==
    \E p \in One :
        /\ pc[p] = "ret" /\ op[p] = "GetOrSet" /\ stack[p] = <<>>
        /\ computed[p] = NoFn
        /\ result[p].val \in Values
        /\ items[key[p]].Value = result[p].val

\* C13: when the Get of a GetOrSet has failed (key absent, or expired and evicted)
\* and fn returns an error, GetOrSet returns that very error and no value, and
\* writes nothing. If fn itself made no call on the store, the key is not in the
\* map as fn returns and so not after GetOrSet has returned; a Get that reads a map
\* without the key returns ErrKeyNotFound.
C13_ComputeErrorPropagates ==
    /\ [][\A p \in One :
            /\ (Inside(p, "fnret") /\ Head(stack[p]).err # ErrNone
                    /\ stack'[p] # stack[p]) =>
                   /\ stack'[p] = Tail(stack[p])
                   /\ pc'[p] = "ret" /\ op'[p] = "GetOrSet"
                   /\ key'[p] = Head(stack[p]).key
                   /\ result'[p] = [NoResult EXCEPT !.err = Head(stack[p]).err]
                   /\ items' = items
            /\ (Leaves(p, "get_read") /\ key[p] \notin DOMAIN items) =>
                   ~found'[p] /\ pc'[p] = "get_check"
            /\ (Leaves(p, "get_check") /\ ~found[p]) =>
                   result'[p] = [NoResult EXCEPT !.err = ErrKeyNotFound]
        ]_vars
    /\ [](\A p \in One :
            /\ (Inside(p, "fnret") /\ ~Head(stack[p]).called) =>
                   Head(stack[p]).key \notin DOMAIN items
            /\ Inside(p, "fnret") => pc[p] = "idle" /\ mu = Unlocked)

\* A GetOrSet has returned fn's error for a key that had held an entry, and the
\* key is not in the map.
C13_Witness ==
    \E p \in One :
        /\ pc[p] = "ret" /\ op[p] = "GetOrSet" /\ stack[p] = <<>>
        /\ result[p] = [NoResult EXCEPT !.err = ErrCompute]
        /\ lastSet[key[p]] # Nil
        /\ key[p] \notin DOMAIN items

\* C19: whenever a compute function is running, the goroutine that runs it holds
\* the mutex neither for reading nor for writing, so the Set, Get, Delete or
\* GetOrSet that fn calls on the same store is not blocked by its own caller:
\* every GetOrSet that has begun returns.
C19_ComputeOutsideLock ==
    /\ [](\A p \in One :
            Inside(p, "fn") => (mu.w # p /\ p \notin mu.r) \/ pc[p] # "idle")
    /\ \A p \in One :
          (stack[p] # <<>>) ~> (stack[p] = <<>> /\ pc[p] = "ret" /\ op[p] = "GetOrSet")

\* A GetOrSet that fn called on the very key of the GetOrSet running fn has
\* returned to fn after storing a value.
C19_Witness ==
    \E p \in One :
        /\ Len(stack[p]) = 1 /\ Inside(p, "fn")
        /\ pc[p] = "ret" /\ op[p] = "GetOrSet" /\ key[p] = Head(stack[p]).key
        /\ result[p].val \in Values /\ computed[p] \in Values
        /\ mu = Unlocked

\* C20: GetOrSet is not single-flight. Nothing holds a caller whose Get missed
\* back from running fn while another caller is running fn or storing for the same
\* key; a caller that ran fn returns the value its own fn gave it, whatever the map
\* holds by then, and the map holds the value of whichever Set wrote last.
C20_NotSingleFlight ==
    /\ [](\A p \in Two :
            /\ (pc[p] = "ret" /\ op[p] = "GetOrSet" /\ computed[p] # NoFn) =>
                   result[p] = [NoResult EXCEPT !.val = computed[p]]
            /\ (Inside(p, "get") /\ pc[p] = "ret" /\ result[p].err # ErrNone) =>
                   ENABLED GetOrSetGot(p)
            /\ Inside(p, "fn") => ENABLED (\E v \in Values : FnReturn(p, v, ErrNone)))
    /\ [](\A k \in DOMAIN items : items[k].Value = lastSet[k])
    /\ [][\A p \in Two :
            (Inside(p, "get") /\ pc[p] = "ret" /\ result[p].err # ErrNone
                /\ stack'[p] # stack[p]) => Inside(p, "fn")'
        ]_vars

\* Both callers missed, both ran fn, each has returned its own value, and the map
\* holds the value of one of them: the other has returned a value that differs
\* from the cached one.
C20_Witness ==
    \E p \in Two, q \in Two :
        /\ p # q
        /\ pc[p] = "ret" /\ op[p] = "GetOrSet" /\ pc[q] = "ret" /\ op[q] = "GetOrSet"
        /\ computed[p] \in Values /\ computed[q] \in Values
        /\ computed[p] # computed[q]
        /\ result[p].val = computed[p] /\ result[q].val = computed[q]
        /\ "a" \in DOMAIN items /\ items["a"].Value = computed[q]

\* C21: Items changes nothing in the store: the entries past their expiration that
\* it leaves out stay in the map, where ItemCount counts them. The mapping it
\* returned is the caller's own: while the caller holds it, no Set, Delete,
\* DeleteExpired or Flush of another goroutine changes it.
C21_ItemsSnapshot ==
    [][/\ Leaves(Reader, "items") =>
            /\ items' = items
            /\ pc'[Reader] = "ret"
            /\ \A k \in DOMAIN items :
                  (items[k].Expiration # 0 /\ clock >= items[k].Expiration) =>
                      k \notin DOMAIN result'[Reader].m /\ k \in DOMAIN items'
       /\ Leaves(Reader, "count") =>
            result'[Reader].n = Cardinality({k \in Keys : k \in DOMAIN items})
       /\ (pc[Reader] = "ret" /\ op[Reader] = "Items" /\ pc'[Reader] = "ret") =>
            result'[Reader].m = result[Reader].m
      ]_vars

\* The reader holds a mapping Items returned; since then the writer has taken
\* out of the store a key the mapping has, and the store holds an entry past its
\* expiration that the mapping has not.
C21_Witness ==
    /\ pc[Reader] = "ret" /\ op[Reader] = "Items"
    /\ \E k \in DOMAIN result[Reader].m : k \notin DOMAIN items
    /\ \E k \in DOMAIN items :
          /\ k \notin DOMAIN result[Reader].m
          /\ items[k].Expiration # 0 /\ clock > items[k].Expiration

\* C22: when fn returns nil with no error, the Set that GetOrSet makes fails its
\* nil check and writes nothing, and GetOrSet returns ErrNilValue and no value. If
\* fn made no call on the store, the key is not in the map then, so the Get of a
\* later GetOrSet on the key misses and fn is run again.
C22_NilComputeRejected ==
    /\ [][\A p \in One :
            /\ (Inside(p, "fnret") /\ Head(stack[p]).err = ErrNone
                    /\ stack'[p] # stack[p]) =>
                   /\ Inside(p, "set")' /\ Len(stack'[p]) = Len(stack[p])
                   /\ Head(stack'[p]).value = Head(stack[p]).value
            /\ (Inside(p, "set") /\ Head(stack[p]).value = Nil) =>
                   /\ items' = items
                   /\ Leaves(p, "idle") =>
                         /\ pc'[p] = "ret" /\ op'[p] = "Set"
                         /\ result'[p] = [NoResult EXCEPT !.err = ErrNilValue]
                   /\ stack'[p] # stack[p] =>
                         /\ stack'[p] = Tail(stack[p])
                         /\ pc'[p] = "ret" /\ op'[p] = "GetOrSet"
                         /\ key'[p] = Head(stack[p]).key
                         /\ result'[p] = [NoResult EXCEPT !.err = ErrNilValue]
            /\ (Inside(p, "get") /\ Leaves(p, "get_read") /\ key[p] \notin DOMAIN items) =>
                   ~found'[p]
            /\ (Inside(p, "get") /\ Leaves(p, "get_check") /\ ~found[p]) =>
                   pc'[p] = "ret" /\ result'[p].err = ErrKeyNotFound
            /\ (Inside(p, "get") /\ pc[p] = "ret" /\ result[p].err # ErrNone
                    /\ stack'[p] # stack[p]) => Inside(p, "fn")'
        ]_vars
    /\ [](\A p \in One :
            (Inside(p, "set") /\ Head(stack[p]).value = Nil /\ ~Head(stack[p]).called) =>
                Head(stack[p]).key \notin DOMAIN items)

\* A GetOrSet whose fn returned nil and no error has returned ErrNilValue, and its
\* key is not in the map.
C22_Witness ==
    \E p \in One :
        /\ pc[p] = "ret" /\ op[p] = "GetOrSet" /\ stack[p] = <<>>
        /\ computed[p] = Nil
        /\ result[p] = [NoResult EXCEPT !.err = ErrNilValue]
        /\ key[p] \notin DOMAIN items

\* C23: a negative duration is treated like zero. SetWithExpiration with d < 0,
\* and Set on a store whose default expiration is negative, store the entry with
\* expiration 0; whatever the time, a Get that reads such an entry returns its
\* value, Items lists it, and no DeleteExpired, of a caller or of the background
\* goroutine, removes it: it changes only by a Set of its key.
C23_NegativeIsNever ==
    /\ [](\A p \in One :
            (pc[p] \in {"swe_lock", "swe_write"} /\ duration[p] < 0) => expiration[p] = 0)
    /\ [][/\ \A p \in One :
               /\ (Leaves(p, "idle") /\ op'[p] = "Set") => duration'[p] = defaultExpiration
               /\ (Leaves(p, "swe_write") /\ duration[p] < 0) =>
                     items'[key[p]] = [Value |-> value[p], Expiration |-> 0]
               /\ (Leaves(p, "get_check") /\ found[p] /\ item[p].Expiration = 0) =>
                     /\ pc'[p] = "ret"
                     /\ result'[p] = [NoResult EXCEPT !.val = item[p].Value]
               /\ Leaves(p, "items") =>
                     \A k \in DOMAIN items :
                         items[k].Expiration = 0 =>
                             /\ k \in DOMAIN result'[p].m
                             /\ result'[p].m[k] = items[k].Value
          /\ \A k \in DOMAIN items :
               (items[k].Expiration = 0 /\ (k \notin DOMAIN items' \/ items'[k] # items[k])) =>
                   \E p \in One : Writing(p, {"swe_write"}) /\ key[p] = k
       ]_vars

\* At the end of the clock, with the goroutine back at its select, a Get has
\* returned the value of an entry that a Set stored under the negative default
\* expiration, and the entry is in the map.
C23_Witness ==
    \E p \in One :
        /\ defaultExpiration < 0 /\ clock = MaxTime
        /\ pc[Sweeper] = "select" /\ ~tickerC
        /\ pc[p] = "ret" /\ op[p] = "Get" /\ result[p].err = ErrNone
        /\ found[p] /\ item[p].Expiration = 0
        /\ key[p] \in DOMAIN items /\ items[key[p]] = item[p]

=============================================================================
